---- MODULE Spec2Model ----
(***************************************************************************)
(* Rapido partner integration: the documented SSO / session protocol.      *)
(*                                                                         *)
(* Parties: the Rapido app (native bridge with its secure storage), the    *)
(* partner PWA (the documented callback handlers, one page variant per     *)
(* documented example), the partner backend (login and validate-session    *)
(* endpoints with its session store) and Rapido's token validation API.    *)
(***************************************************************************)
EXTENDS Integers, Sequences, FiniteSets, TLC

\* ---------------------------------------------------------------- bounds
MaxTime == 2
MaxSessions == 2
MaxLaunches == 2
\* length of the bridge's call log when its storage is exercised on its own
MaxCalls == 6
\* how late, in ms, a timer may fire
MaxLate == 2
\* users of the session store when it is exercised on its own
MaxUsers == 2
\* orders, posts of the event client, entries of the tracker's event log
MaxOrders == 2
MaxPosts == 3
MaxEvents == 4
\* calls of RapidoAPIClient.validateToken when the client is exercised on its own
MaxRequests == 2
\* the largest maxRetries validateTokenWithBackoff is called with
MaxRetries == 3
\* calls of requestTokenWithTimeout
MaxTokenRequests == 3
\* login requests served at the same time
MaxLogins == 3
\* requestSessionId calls of a page whose parts each set the callback
MaxSessionRequests == 4
\* error responses sent through ErrorHandler.sendErrorResponse
MaxErrors == 2

\* ------------------------------------------------------------- constants
\* config.session.expiry, in clock ticks
SessionExpiry == 1
\* what requestSessionId delivers when nothing is stored (null / 'null')
NoSession == 0
\* the empty string, stored by clearStoredSession()
EmptyId == -1

\* checkBridgeReady: maxWaitTime and the delay of its setTimeout, in ms
MaxWaitTime == 5000
PollInterval == 10

\* int(datetime.now().timestamp()): the clock of the event client counts ms
MsPerSecond == 1000

\* The documented example pages.
Variants == {"quick", "quickstart", "api", "security", "manager", "best", "advanced"}

\* Methods of window.NativeJSBridge that the examples test for before use.
\* "requestSessionId" stands for the session read capability (called
\* fetchSessionId in the older pages).
BridgeMethods == {"requestUserToken", "updateLoginStatus", "storeSessionId",
                  "requestSessionId", "clearUserToken"}

\* Tokens the bridge can hand to onTokenReceived: a well-formed token, a
\* token shorter than 50 characters, and the empty/missing token.
Tokens == {"tok", "short", ""}

\* storeSessionId returns 'SUCCESS' or 'ERROR:message'
StoreResults == {"SUCCESS", "ERROR"}

VARIABLES
    variant,      \* which documented page is loaded
    methods,      \* the methods window.NativeJSBridge offers
    pc,           \* where the PWA is
    token,        \* the token being processed by the PWA
    trace,        \* bridge calls and callbacks of the current launch, in order
    storage,      \* Rapido's secure storage: the stored session ID
    http,         \* the request / response in flight between PWA and backend
    sessions,     \* backend: the Session collection
    users,        \* backend: the User collection
    nextSid,      \* backend: next fresh session ID
    now,          \* the clock
    launches,     \* number of PWA launches so far
    pending,      \* the session ID the bridge read for the request it is answering
    poll,         \* checkBridgeReady: where it is, the time it has waited, its effects
    timers,       \* backend: the pending session cleanup timers (setTimeout)
    eventLog,     \* events sent: through logEvents by the PWA, posted by the event client
    tracker,      \* BookingEventTracker: where handleBookingConfirmation is
    client,       \* RapidoAPIClient: its config, the requests it sent, its finished calls
    backoff,      \* validateTokenWithBackoff: its attempt, its requests and waits, its result
    treq,         \* requestTokenWithTimeout: window.JSBridge.onTokenReceived, each call's closure
    logins,       \* login requests in service: where each is in createOrUpdateUser
    requesters,   \* who owns window.JSBridge.onSessionIdReceived, the requests not yet answered
    errs          \* ErrorHandler: the errors caught by the route and the responses sent for them

\* the SSO flow between PWA, bridge and backend
mainVars == <<variant, methods, pc, token, trace, storage, http, sessions, users, nextSid, now,
              launches, pending>>

\* the state of the troubleshooting guide's helpers
aux2 == <<backoff, treq, logins, requesters, errs>>

\* the state of the components specified on their own below
aux == <<poll, timers, eventLog, tracker, client, aux2>>

vars == <<variant, methods, pc, token, trace, storage, http, sessions, users, nextSid, now, launches, pending, aux>>

\* "Rapido was not asked"
NoAnswer == [status |-> -1, success |-> FALSE, valid |-> "nodata"]

\* kind/phase: which request and whether it is on its way or answered; token,
\* sid: the request body; status, ok (success / valid), sessionId: the answer;
\* rapido: what Rapido's API answered to the backend while it served the request;
\* db: whether the database calls of validate-session succeeded ("fails": one threw)
NoHttp == [kind |-> "none", phase |-> "none", token |-> "", sid |-> NoSession,
           status |-> 0, ok |-> FALSE, sessionId |-> NoSession, rapido |-> NoAnswer,
           db |-> "ok"]

\* ------------------------------------------------------- Rapido's API
\* What POST /fetch-user-details can answer.  status 0: no response was
\* received (network error, timeout).  For a 200 answer: the body's success
\* flag and its data.valid field ("absent": data carries no valid field, as
\* in the documented success response; "nodata": the body has no data).
RapidoAnswers ==
    [status : {200}, success : BOOLEAN, valid : {"true", "false", "absent", "nodata"}]
    \cup [status : {401, 429, 500, 0}, success : {FALSE}, valid : {"nodata"}]

\* The documented HTTP 200 success response: success=true, code 7000,
\* data.user with name and mobile, and no data.valid.
DocumentedSuccess == [status |-> 200, success |-> TRUE, valid |-> "absent"]

\* ----------------------------------------------------- partner backend
\* RapidoAPIClient.validateToken: axios resolves on 2xx and rejects otherwise
ValidateTokenThrows(ans) == ans.status # 200

\* (mutant) the data.valid test is dropped
TokenAcceptedNoValid(ans) == ans.success

\* the condition of the login route: rapidoResponse.success && rapidoResponse.data.valid
\* ("nodata" with success=true raises a TypeError, handled by the caller)
TokenAccepted(ans) == ans.success /\ ans.valid = "true"

\* SessionService.createSession: the Session document saved for a user
NewSession(sid, userId, t) == [sessionId |-> sid, userId |-> userId, expiresAt |-> t + SessionExpiry]

\* UserService.createOrUpdateUser: findOne by rapidoUserId, update or create
CreateOrUpdateUser(us, rapidoUserId) ==
    IF \E u \in us : u.rapidoUserId = rapidoUserId
    THEN us
    ELSE us \cup {[id |-> Cardinality(us) + 1, rapidoUserId |-> rapidoUserId]}

UserIdOf(us, rapidoUserId) == (CHOOSE u \in us : u.rapidoUserId = rapidoUserId).id

\* (mutant) the catch block has no branch for a 429 of Rapido
LoginStatusNo429(tok, ans, dbOk) ==
    IF tok = "" THEN 400
    ELSE IF ValidateTokenThrows(ans)
         THEN (IF ans.status = 401 THEN 401 ELSE 500)
         ELSE IF ans.success /\ ans.valid = "nodata" THEN 500
         ELSE IF TokenAccepted(ans) THEN (IF dbOk THEN 200 ELSE 500)
         ELSE 401

\* The HTTP status of the login route's answer for a token and Rapido's answer;
\* dbOk is whether the database calls succeed.
LoginStatus(tok, ans, dbOk) ==
    IF tok = "" THEN 400
    ELSE IF ValidateTokenThrows(ans)
         THEN (IF ans.status = 401 THEN 401 ELSE IF ans.status = 429 THEN 429 ELSE 500)
         ELSE IF ans.success /\ ans.valid = "nodata" THEN 500
         ELSE IF TokenAccepted(ans) THEN (IF dbOk THEN 200 ELSE 500)
         ELSE 401

\* (mutant) the query does not look at expiresAt
FindSessionAnyExpiry(ss, sid, t) == {s \in ss : s.sessionId = sid}

\* SessionService.validateSession: a session with this ID that has not expired
FindValidSession(ss, sid, t) == {s \in ss : s.sessionId = sid /\ s.expiresAt > t}

\* Session.deleteOne({ sessionId })
DeleteOne(ss, sid) == {s \in ss : s.sessionId # sid}

\* ------------------------------------------------------------ the PWA
\* One statement of a handler: a call of a bridge method (guarded by
\* "if (window.NativeJSBridge && window.NativeJSBridge.<op>)" or not), or one
\* of fetch.login, fetch.validate, navigate (to the authenticated view),
\* localStorage.setItem, console.log (arg 1: the value logged is the token).
Call(op, arg) == [op |-> op, arg |-> arg, guarded |-> FALSE]
Guarded(op, arg) == [op |-> op, arg |-> arg, guarded |-> TRUE]

\* Running a block under the bridge ms: a guarded call of a missing method is
\* skipped, an unguarded one throws a TypeError that ends the block.
RECURSIVE Exec(_, _)
Exec(prog, ms) ==
    IF prog = <<>> THEN [calls |-> <<>>, threw |-> FALSE]
    ELSE LET i == Head(prog) IN
         IF i.op \in BridgeMethods /\ i.op \notin ms
         THEN IF i.guarded THEN Exec(Tail(prog), ms)
              ELSE [calls |-> <<>>, threw |-> TRUE]
         ELSE LET r == Exec(Tail(prog), ms) IN
              [calls |-> <<[op |-> i.op, arg |-> i.arg]>> \o r.calls, threw |-> r.threw]

\* try { body } catch { handler }
TryCatch(body, handler, ms) ==
    LET r == Exec(body, ms) IN
    IF r.threw THEN r.calls \o Exec(handler, ms).calls ELSE r.calls

\* the sessionId tests of the callbacks: sessionId && sessionId !== 'null'
HasSession(sid) == sid # NoSession /\ sid # EmptyId

\* requestAuthentication / requestNewAuth / requestNewToken
RequestAuthentication == <<Guarded("requestUserToken", 0)>>

\* clearSessionAndRequestAuth (API reference)
ClearSessionAndRequestAuth == <<Guarded("clearUserToken", 0)>> \o RequestAuthentication

\* clearStoredSession (JavaScript bridge page): clears by storing ''
ClearStoredSession == <<Guarded("storeSessionId", EmptyId)>>

\* ---- the callbacks each page's script registers before anything else runs
\* "window.JSBridge.<callback> = function ..." (arg 0), or a global function
\* declaration of that name, which JavaScript hoists (arg 1)
Assign(callback) == Call("set." \o callback, 0)

QuickSetup == <<Assign("onTokenReceived")>>

\* the quick start page declares "function onTokenReceived(token)"
QuickstartSetup == <<Call("set.onTokenReceived", 1)>>

ApiSetup == <<Assign("onTokenReceived"), Assign("onSessionIdReceived")>>

SecuritySetup == <<Assign("onTokenReceived"), Assign("onSessionIdReceived")>>

\* (mutant) setupCallbacks forgets the token callback
ManagerSetupNoToken == <<Assign("onSessionIdReceived")>>

\* new RapidoSessionManager(): the constructor calls setupCallbacks
ManagerSetup == <<Assign("onSessionIdReceived"), Assign("onTokenReceived")>>

BestSetup == <<Assign("onTokenReceived")>>

AdvancedSetup == <<Assign("onTokenReceived")>>

SetupCallbacks(v) ==
    CASE v = "quick" -> QuickSetup
      [] v = "quickstart" -> QuickstartSetup
      [] v = "api" -> ApiSetup
      [] v = "security" -> SecuritySetup
      [] v = "manager" -> ManagerSetup
      [] v = "best" -> BestSetup
      [] v = "advanced" -> AdvancedSetup

\* ---- what each page does when it loads
\* DOMContentLoaded of the API reference / checkExistingSession of the manager
CheckExistingSession(ms) ==
    IF "requestSessionId" \in ms THEN <<Call("requestSessionId", 0)>>
    ELSE RequestAuthentication

\* checkStoredSession of the security page: "Set up callback first"
CheckStoredSession(ms) ==
    IF "requestSessionId" \in ms
    THEN <<Assign("onSessionIdReceived"), Call("requestSessionId", 0)>>
    ELSE RequestAuthentication

\* quick integration example: requestUserToken() at top level
QuickLoad == <<Call("requestUserToken", 0)>>

\* quick start page: checkBridgeReady, then initializeAuth with the
\* synchronous read of the stored session
QuickstartLoad(ms, stored) ==
    IF "requestUserToken" \notin ms THEN <<>>
    ELSE IF "requestSessionId" \in ms /\ HasSession(stored) THEN <<>>
    ELSE RequestAuthentication

\* validateAndGetSession: assigns the callback, then requests
AdvancedLoad == <<Assign("onSessionIdReceived"), Guarded("requestSessionId", 0)>>

\* initiateLogin
BestLoad == <<Guarded("requestUserToken", 0)>>

LoadProgram(v, ms, stored) ==
    CASE v = "quick" -> QuickLoad
      [] v = "quickstart" -> QuickstartLoad(ms, stored)
      [] v \in {"api", "manager"} -> CheckExistingSession(ms)
      [] v = "security" -> CheckStoredSession(ms)
      [] v = "advanced" -> AdvancedLoad
      [] v = "best" -> BestLoad

\* ---- window.JSBridge.onSessionIdReceived
OnSessionIdReceived(v, sid) ==
    IF HasSession(sid) THEN <<Call("fetch.validate", sid)>>
    ELSE IF v = "advanced" THEN <<>>
    ELSE RequestAuthentication

\* ---- the answer of /api/auth/validate-session arrives
\* (mutant) the page opens the dashboard whatever the backend answered
ApiSessionAnswerAlways(valid) == <<Call("navigate", 0)>>

ApiSessionAnswer(valid) ==
    IF valid THEN <<Call("navigate", 0)>> ELSE ClearSessionAndRequestAuth

\* (mutant) the test of result.valid is inverted
ManagerSessionAnswerInverted(valid) ==
    IF ~valid THEN <<Call("navigate", 0)>>
    ELSE <<Guarded("clearUserToken", 0)>> \o RequestAuthentication

ManagerSessionAnswer(valid) ==
    IF valid THEN <<Call("navigate", 0)>>
    ELSE <<Guarded("clearUserToken", 0)>> \o RequestAuthentication

SecuritySessionAnswer(valid) ==
    IF valid THEN <<Call("navigate", 0)>>
    ELSE <<Guarded("clearUserToken", 0)>> \o RequestAuthentication

AdvancedSessionAnswer(valid) ==
    IF valid THEN <<Call("navigate", 0)>> ELSE ClearStoredSession

SessionAnswer(v, valid) ==
    CASE v = "api" -> ApiSessionAnswer(valid)
      [] v = "manager" -> ManagerSessionAnswer(valid)
      [] v = "security" -> SecuritySessionAnswer(valid)
      [] v = "advanced" -> AdvancedSessionAnswer(valid)
      [] OTHER -> <<>>

\* ---- the validate-session request failed (the .catch / catch block)
SessionError(v) ==
    CASE v = "api" -> ClearSessionAndRequestAuth
      [] v = "manager" -> RequestAuthentication
      [] v = "security" -> RequestAuthentication
      [] OTHER -> <<>>

\* ---- window.JSBridge.onTokenReceived, up to the login request
QuickOnToken == <<Call("fetch.login", 0)>>

QuickstartOnToken == <<Call("console.log", 1), Call("fetch.login", 0)>>

ApiOnToken == <<Call("fetch.login", 0)>>

ManagerOnToken == <<Call("fetch.login", 0)>>

\* the security page checks the token format first and returns on a bad one
SecurityOnToken(tok) == IF tok # "tok" THEN <<>> ELSE <<Call("fetch.login", 0)>>

\* the bridge page rejects a missing token (handleAuthError)
AdvancedOnToken(tok) == IF tok = "" THEN <<>> ELSE <<Call("fetch.login", 0)>>

OnTokenReceived(v, tok) ==
    CASE v = "quick" -> QuickOnToken
      [] v = "advanced" -> AdvancedOnToken(tok)
      [] v = "quickstart" -> QuickstartOnToken
      [] v = "api" -> ApiOnToken
      [] v = "manager" -> ManagerOnToken
      [] v = "security" -> SecurityOnToken(tok)
      [] OTHER -> <<>>

\* ---- the answer of /api/auth/rapido-login arrives
QuickLoginAnswer(success, sid) ==
    IF success THEN <<Call("storeSessionId", sid), Call("updateLoginStatus", 1)>> ELSE <<>>

QuickstartLoginAnswer(success, sid) ==
    IF success THEN <<Guarded("storeSessionId", sid), Call("navigate", 0)>> ELSE <<>>

ApiLoginAnswer(success, sid) ==
    IF success
    THEN <<Guarded("storeSessionId", sid), Guarded("updateLoginStatus", 1), Call("navigate", 0)>>
    ELSE <<>>

\* (mutant) the native app is notified before the session is stored
SecurityLoginAnswerEarly(success, sid) ==
    IF success
    THEN <<Guarded("updateLoginStatus", 1), Guarded("storeSessionId", sid), Call("navigate", 0)>>
    ELSE <<Guarded("updateLoginStatus", 0)>>

SecurityLoginAnswer(success, sid) ==
    IF success
    THEN <<Guarded("storeSessionId", sid), Guarded("updateLoginStatus", 1), Call("navigate", 0)>>
    ELSE <<Guarded("updateLoginStatus", 0)>>

\* (mutant) storeSession is given something else than result.sessionId
ManagerLoginAnswerWrongId(success, sid) ==
    IF success
    THEN <<Guarded("storeSessionId", EmptyId), Guarded("updateLoginStatus", 1), Call("navigate", 0)>>
    ELSE <<Guarded("updateLoginStatus", 0)>>

\* processAuthToken: storeSession, updateLoginStatus, redirectToDashboard; a
\* refusal is thrown into the catch block
ManagerLoginAnswer(success, sid) ==
    IF success
    THEN <<Guarded("storeSessionId", sid), Guarded("updateLoginStatus", 1), Call("navigate", 0)>>
    ELSE <<Guarded("updateLoginStatus", 0)>>

\* saveSession
SaveSession(sid) == <<Guarded("storeSessionId", sid)>>

\* processReceivedToken: "Store session and redirect" (handleSuccessfulAuth);
\* a refusal or a non-2xx answer is thrown into the catch block (handleAuthError)
AdvancedLoginAnswer(success, sid) ==
    IF success THEN SaveSession(sid) \o <<Call("navigate", 0)>> ELSE <<>>

LoginAnswer(v, success, sid) ==
    CASE v = "quick" -> QuickLoginAnswer(success, sid)
      [] v = "advanced" -> AdvancedLoginAnswer(success, sid)
      [] v = "quickstart" -> QuickstartLoginAnswer(success, sid)
      [] v = "api" -> ApiLoginAnswer(success, sid)
      [] v = "security" -> SecurityLoginAnswer(success, sid)
      [] v = "manager" -> ManagerLoginAnswer(success, sid)
      [] OTHER -> <<>>

\* ---- the login request failed (the .catch / catch block)
LoginError(v) ==
    CASE v \in {"security", "manager"} -> <<Guarded("updateLoginStatus", 0)>>
      [] OTHER -> <<>>

\* ---- "Best Practices" handler of the bridge page: synchronous; outcome is
\* what processAuthToken(token) did: "data", "null" or "throw"
BestOnToken(outcome, ms) ==
    IF outcome = "throw" THEN Exec(<<Call("updateLoginStatus", 0)>>, ms).calls
    ELSE TryCatch(IF outcome = "data"
                  THEN <<Call("localStorage.setItem", 2), Call("updateLoginStatus", 1),
                         Call("navigate", 0)>>
                  ELSE <<Call("updateLoginStatus", 0)>>,
                  <<Call("updateLoginStatus", 0)>>, ms)

\* ---- the effect of a handler's calls
\* (mutant) the storage keeps the session ID whatever storeSessionId returned
RECURSIVE StoredAlways(_, _, _)
StoredAlways(calls, st, res) ==
    IF calls = <<>> THEN st
    ELSE LET c == Head(calls) IN
         StoredAlways(Tail(calls),
                      IF c.op = "storeSessionId" THEN c.arg
                      ELSE IF c.op = "clearUserToken" THEN NoSession
                      ELSE st,
                      res)

\* Rapido's secure storage after the calls; res is storeSessionId's result
RECURSIVE Stored(_, _, _)
Stored(calls, st, res) ==
    IF calls = <<>> THEN st
    ELSE LET c == Head(calls) IN
         Stored(Tail(calls),
                IF c.op = "storeSessionId" /\ res = "SUCCESS" THEN c.arg
                ELSE IF c.op = "clearUserToken" THEN NoSession
                ELSE st,
                res)

Ops(calls) == {calls[i].op : i \in 1..Len(calls)}

\* requestSessionId reads the stored session ID when it is called and hands it
\* to onSessionIdReceived later: what the bridge holds for delivery after calls
Requested(calls, st, held) == IF "requestSessionId" \in Ops(calls) THEN st ELSE held

\* where the PWA is after a handler ran
PcAfter(calls) ==
    IF "navigate" \in Ops(calls) THEN "dashboard"
    ELSE IF {"fetch.login", "fetch.validate"} \cap Ops(calls) # {} THEN "fetching"
    ELSE IF "requestUserToken" \in Ops(calls) THEN "waitToken"
    ELSE IF "requestSessionId" \in Ops(calls) THEN "waitSession"
    ELSE "idle"

\* the request a handler sent
HttpAfter(calls, tok) ==
    IF "fetch.login" \in Ops(calls)
    THEN [NoHttp EXCEPT !.kind = "login", !.phase = "req", !.token = tok]
    ELSE IF "fetch.validate" \in Ops(calls)
    THEN [NoHttp EXCEPT !.kind = "validate", !.phase = "req",
                        !.sid = calls[CHOOSE i \in 1..Len(calls) : calls[i].op = "fetch.validate"].arg]
    ELSE NoHttp

Event(op, arg) == [op |-> op, arg |-> arg]

\* the one Rapido user of this device (userData.id)
RapidoUserId == 1

\* ------------------------------------------------------------- states
\* the page v is opened for the first time in an app whose bridge offers ms
MainStart(v, ms) ==
    /\ variant = v
    /\ methods = ms
    /\ pc = "load"
    /\ token = ""
    /\ trace = <<>>
    /\ storage = NoSession
    /\ http = NoHttp
    /\ sessions = {}
    /\ users = {}
    /\ nextSid = 1
    /\ now = 0
    /\ launches = 1
    /\ pending = NoSession

\* a BookingEventTracker that has handled no booking; bridge: what the page
\* finds ("logEvents", "noMethod": a bridge without logEvents, "noBridge")
TrackerStart(bridge) == [pc |-> "idle", bridge |-> bridge, booking |-> 0, failed |-> FALSE]

\* validateTokenWithBackoff(token, maxRetries) has not been called
BackoffStart(maxRetries) ==
    [maxRetries |-> maxRetries, pc |-> "idle", attempt |-> 0, requests |-> 0,
     outcomes |-> <<>>, waits |-> <<>>, result |-> "none"]

\* the page before requestTokenWithTimeout is called: window.JSBridge.onTokenReceived
\* is the page's own callback (0), if it has assigned one
TokenRequestStart(bridge, hasOriginal) ==
    [bridge |-> bridge, hasOriginal |-> hasOriginal, callback |-> 0, calls |-> <<>>,
     requested |-> 0, delivered |-> 0, originalCalls |-> 0, consentShown |-> 0,
     lateConsent |-> FALSE]

\* window.JSBridge.onSessionIdReceived is not assigned, nothing was requested
RequestersStart == [callback |-> "none", queue |-> <<>>, handled |-> <<>>]

\* no login request is being served
NoLogins == [r \in {} |-> 0]

Aux2Start ==
    /\ backoff = BackoffStart(3)
    /\ treq = TokenRequestStart(TRUE, TRUE)
    /\ logins = NoLogins
    /\ requesters = RequestersStart
    /\ errs = <<>>

\* new RapidoAPIClient(config): nothing sent, no call made
ClientStart(clientId) ==
    [config |-> [apiKey |-> "test-api-key", clientId |-> clientId],
     pc |-> "idle", token |-> "", requests |-> <<>>, calls |-> <<>>]

\* checkBridgeReady has not been called
PollStart == [pc |-> "onload", elapsed |-> 0, ready |-> FALSE, proceeded |-> 0, reported |-> 0]

AuxStart ==
    /\ poll = PollStart
    /\ timers = {}
    /\ eventLog = <<>>
    /\ tracker = TrackerStart("logEvents")
    /\ client = ClientStart("test-client-id")
    /\ Aux2Start

Init ==
    /\ \E v \in Variants, ms \in SUBSET BridgeMethods : MainStart(v, ms)
    /\ AuxStart

\* the calls as the trace records them: each storeSessionId call is followed
\* by what it returned (1: 'SUCCESS', 0: an 'ERROR:...' result)
RECURSIVE WithResults(_, _)
WithResults(calls, res) ==
    IF calls = <<>> THEN <<>>
    ELSE <<Head(calls)>>
         \o (IF Head(calls).op = "storeSessionId"
             THEN <<Event("storeSessionId.returned", IF res = "SUCCESS" THEN 1 ELSE 0)>>
             ELSE <<>>)
         \o WithResults(Tail(calls), res)

\* a handler of the PWA ran: its calls take effect
Ran(events, calls, tok, res) ==
    /\ trace' = trace \o events \o WithResults(calls, res)
    /\ storage' = Stored(calls, storage, res)
    /\ pending' = Requested(calls, storage, pending)
    /\ pc' = PcAfter(calls)
    /\ http' = HttpAfter(calls, tok)
    /\ token' = tok

\* The page loads and runs its start-up code.
PageLoad ==
    /\ pc = "load"
    /\ Ran(<<>>, Exec(SetupCallbacks(variant) \o LoadProgram(variant, methods, storage),
                      methods).calls, "", "SUCCESS")
    /\ UNCHANGED <<variant, methods, sessions, users, nextSid, now, launches, aux>>

\* The bridge answers requestSessionId through onSessionIdReceived.
DeliverSessionId ==
    /\ pc = "waitSession"
    /\ \E res \in StoreResults :
         Ran(<<Event("onSessionIdReceived", pending)>>,
             Exec(OnSessionIdReceived(variant, pending), methods).calls, "", res)
    /\ UNCHANGED <<variant, methods, sessions, users, nextSid, now, launches, aux>>

\* The user approves consent and the bridge hands a token to onTokenReceived.
DeliverToken ==
    /\ pc = "waitToken"
    /\ variant # "best"
    /\ \E tok \in Tokens :
         Ran(<<Event("onTokenReceived", 0)>>,
             Exec(OnTokenReceived(variant, tok), methods).calls, tok, "SUCCESS")
    /\ UNCHANGED <<variant, methods, sessions, users, nextSid, now, launches, aux>>

\* The same for the synchronous "Best Practices" handler.
DeliverTokenBest ==
    /\ pc = "waitToken"
    /\ variant = "best"
    /\ \E tok \in Tokens, outcome \in {"data", "null", "throw"} :
         Ran(<<Event("onTokenReceived", 0)>>, BestOnToken(outcome, methods), tok, "SUCCESS")
    /\ UNCHANGED <<variant, methods, sessions, users, nextSid, now, launches, aux>>

\* The bridge page shows its login screen; the user starts the login (initiateLogin).
InitiateLogin ==
    /\ variant = "advanced"
    /\ pc = "idle"
    /\ "requestUserToken" \notin Ops(trace)
    /\ Ran(<<>>, Exec(RequestAuthentication, methods).calls, "", "SUCCESS")
    /\ pc' = "waitToken"
    /\ UNCHANGED <<variant, methods, sessions, users, nextSid, now, launches, aux>>

\* The user declines: onUserSkippedLogin.
SkipLogin ==
    /\ pc = "waitToken"
    /\ pc' = "skipped"
    /\ trace' = Append(trace, Event("onUserSkippedLogin", 0))
    /\ UNCHANGED <<variant, methods, token, storage, http, sessions, users, nextSid, now, launches, pending, aux>>

\* POST /api/auth/rapido-login on the partner backend.
LoginEndpoint ==
    /\ http.kind = "login" /\ http.phase = "req"
    /\ \E ans \in RapidoAnswers, db \in {"ok", "userFails", "sessionFails"} :
         LET status == LoginStatus(http.token, ans, db = "ok")
             reachedDb == http.token # "" /\ ~ValidateTokenThrows(ans) /\ TokenAccepted(ans)
             us == CreateOrUpdateUser(users, RapidoUserId)
         IN /\ status = 200 => nextSid <= MaxSessions
            /\ users' = IF reachedDb /\ db # "userFails" THEN us ELSE users
            /\ IF status = 200
               THEN /\ sessions' = sessions \cup
                                   {NewSession(nextSid, UserIdOf(us, RapidoUserId), now)}
                    /\ nextSid' = nextSid + 1
                    /\ http' = [http EXCEPT !.phase = "resp", !.status = 200, !.ok = TRUE,
                                            !.sessionId = nextSid, !.rapido = ans]
               ELSE /\ UNCHANGED <<sessions, nextSid>>
                    /\ http' = [http EXCEPT !.phase = "resp", !.status = status, !.ok = FALSE,
                                            !.rapido = IF http.token = "" THEN NoAnswer ELSE ans]
    /\ UNCHANGED <<variant, methods, pc, token, trace, storage, now, launches, pending, aux>>

\* POST /api/auth/validate-session on the partner backend.
ValidateEndpoint ==
    /\ http.kind = "validate" /\ http.phase = "req"
    /\ \E dbOk \in BOOLEAN :
         LET found == FindValidSession(sessions, http.sid, now) IN
         IF ~HasSession(http.sid)
         THEN /\ dbOk
              /\ http' = [http EXCEPT !.phase = "resp", !.status = 200, !.ok = FALSE]
              /\ UNCHANGED sessions
         ELSE IF ~dbOk
         THEN /\ http' = [http EXCEPT !.phase = "resp", !.status = 200, !.ok = FALSE,
                                      !.db = "fails"]
              /\ UNCHANGED sessions
         ELSE IF found # {}
         THEN /\ http' = [http EXCEPT !.phase = "resp", !.status = 200, !.ok = TRUE]
              /\ UNCHANGED sessions
         ELSE /\ http' = [http EXCEPT !.phase = "resp", !.status = 200, !.ok = FALSE]
              /\ sessions' = DeleteOne(sessions, http.sid)
    /\ UNCHANGED <<variant, methods, pc, token, trace, storage, users, nextSid, now, launches, pending, aux>>

\* The PWA receives the login answer.
ReceiveLogin ==
    /\ pc = "fetching" /\ http.kind = "login" /\ http.phase = "resp"
    /\ \E res \in StoreResults :
         Ran(<<Event("login.response", IF http.ok THEN http.sessionId ELSE 0)>>,
             Exec(LoginAnswer(variant, http.ok, http.sessionId), methods).calls, token, res)
    /\ UNCHANGED <<variant, methods, sessions, users, nextSid, now, launches, aux>>

\* The PWA receives the validate-session answer.
ReceiveValidation ==
    /\ pc = "fetching" /\ http.kind = "validate" /\ http.phase = "resp"
    /\ \E res \in StoreResults :
         Ran(<<Event("validate.response", IF http.ok THEN 1 ELSE 0)>>,
             Exec(SessionAnswer(variant, http.ok), methods).calls, token, res)
    /\ UNCHANGED <<variant, methods, sessions, users, nextSid, now, launches, aux>>

\* The request of the PWA fails (network error): the catch block runs.
FetchFails ==
    /\ pc = "fetching" /\ http.kind # "none"
    /\ Ran(<<Event("fetch.error", 0)>>,
           Exec(IF http.kind = "login" THEN LoginError(variant) ELSE SessionError(variant),
                methods).calls, token, "SUCCESS")
    /\ UNCHANGED <<variant, methods, sessions, users, nextSid, now, launches, aux>>

\* Time passes.
Tick ==
    /\ now < MaxTime
    /\ now' = now + 1
    /\ UNCHANGED <<variant, methods, pc, token, trace, storage, http, sessions, users, nextSid, launches, pending, aux>>

\* The user opens the PWA again.
Relaunch ==
    /\ pc \in {"dashboard", "idle", "skipped"}
    /\ launches < MaxLaunches
    /\ launches' = launches + 1
    /\ pc' = "load"
    /\ trace' = <<>>
    /\ token' = ""
    /\ http' = NoHttp
    /\ UNCHANGED <<variant, methods, storage, sessions, users, nextSid, now, pending, aux>>

Next ==
    \/ PageLoad
    \/ DeliverSessionId
    \/ DeliverToken
    \/ DeliverTokenBest
    \/ InitiateLogin
    \/ SkipLogin
    \/ LoginEndpoint
    \/ ValidateEndpoint
    \/ ReceiveLogin
    \/ ReceiveValidation
    \/ FetchFails
    \/ Tick
    \/ Relaunch

Spec == Init /\ [][Next]_vars

\* ---- the flow when everything goes well: the bridge is complete, the user
\* approves consent, the backend's database works and Rapido answers the
\* token of the consent with a success response
FlowInit ==
    /\ MainStart("api", BridgeMethods)
    /\ AuxStart

\* Rapido's success responses: success=true, with or without data.valid
\* (the documented response has none)
SuccessAnswers == {a \in RapidoAnswers : a.status = 200 /\ a.success /\ a.valid \in {"true", "absent"}}

ConsentApproved == DeliverToken /\ token' = "tok"

LoginAnswered ==
    /\ LoginEndpoint
    /\ http'.rapido \in SuccessAnswers
    /\ TokenAccepted(http'.rapido) => http'.ok

ValidationAnswered == ValidateEndpoint /\ http'.db = "ok"

FlowNext ==
    \/ PageLoad
    \/ DeliverSessionId
    \/ ConsentApproved
    \/ LoginAnswered
    \/ ValidationAnswered
    \/ ReceiveLogin
    \/ ReceiveValidation
    \/ Tick
    \/ Relaunch

\* the page, the bridge and the backend each take their step when it is due
FlowSpec ==
    /\ FlowInit /\ [][FlowNext]_vars
    /\ WF_vars(PageLoad) /\ WF_vars(DeliverSessionId) /\ WF_vars(ConsentApproved)
    /\ WF_vars(LoginAnswered) /\ WF_vars(ValidationAnswered)
    /\ WF_vars(ReceiveLogin) /\ WF_vars(ReceiveValidation)

\* ------------------------------------------- the bridge's session storage
\* storeSessionId / requestSessionId / clearUserToken called in any order, as
\* the documented bridge and its mock (simulateBridgeEnvironment) answer them.
\* trace logs each call, what storeSessionId returned (1: 'SUCCESS', 0: an
\* error) and each delivery to onSessionIdReceived.
StorableIds == (1..MaxSessions) \cup {EmptyId}

BridgeInit ==
    /\ MainStart("api", BridgeMethods)
    /\ AuxStart

\* storeSessionId(sid) returns res
StoreSessionId ==
    /\ Len(trace) + 2 <= MaxCalls
    /\ \E sid \in StorableIds, res \in StoreResults :
         /\ storage' = Stored(<<Call("storeSessionId", sid)>>, storage, res)
         /\ trace' = trace \o <<Event("storeSessionId", sid),
                                 Event("storeSessionId.returned", IF res = "SUCCESS" THEN 1 ELSE 0)>>
    /\ UNCHANGED <<variant, methods, pc, token, http, sessions, users, nextSid, now, launches,
                   pending, aux>>

\* clearUserToken()
ClearUserToken ==
    /\ Len(trace) < MaxCalls
    /\ storage' = Stored(<<Call("clearUserToken", 0)>>, storage, "SUCCESS")
    /\ trace' = Append(trace, Event("clearUserToken", 0))
    /\ UNCHANGED <<variant, methods, pc, token, http, sessions, users, nextSid, now, launches,
                   pending, aux>>

\* requestSessionId(): the bridge reads its storage
RequestSessionId ==
    /\ Len(trace) < MaxCalls
    /\ pc = "load"
    /\ pc' = "waitSession"
    /\ pending' = Requested(<<Call("requestSessionId", 0)>>, storage, pending)
    /\ trace' = Append(trace, Event("requestSessionId", 0))
    /\ UNCHANGED <<variant, methods, token, storage, http, sessions, users, nextSid, now,
                   launches, aux>>

\* the bridge calls window.JSBridge.onSessionIdReceived with what it read
SessionIdReceived ==
    /\ pc = "waitSession"
    /\ pc' = "load"
    /\ trace' = Append(trace, Event("onSessionIdReceived", pending))
    /\ UNCHANGED <<variant, methods, token, storage, http, sessions, users, nextSid, now,
                   launches, pending, aux>>

BridgeNext ==
    \/ StoreSessionId
    \/ ClearUserToken
    \/ RequestSessionId
    \/ SessionIdReceived

BridgeSpec == BridgeInit /\ [][BridgeNext]_vars

\* ------------------------------------------------- bridge readiness check
\* window.onload calls checkBridgeReady; the WebView injects NativeJSBridge at
\* some moment, or never.  poll.pc: "onload" (not called yet), "polling" (a
\* timer is pending), "proceeded", "failed"; poll.elapsed: Date.now() -
\* startTime when checkBridgeReady last ran; poll.proceeded: how often it went
\* on to the bridge (requestUserToken / initializeAuth / setupCallbacks + init);
\* poll.reported: how often it reported the timeout.

\* (mutant) there is no timeout branch
CheckOutcomeNoTimeout(ready, elapsed) ==
    IF ready THEN "proceeded" ELSE "polling"

\* the three branches of checkBridgeReady
CheckOutcome(ready, elapsed) ==
    IF ready THEN "proceeded"
    ELSE IF elapsed < MaxWaitTime THEN "polling"
    ELSE "failed"

\* one run of checkBridgeReady, t ms after the first
CheckBridgeReady(t) ==
    LET outcome == CheckOutcome(poll.ready, t) IN
    poll' = [poll EXCEPT !.pc = outcome,
                         !.elapsed = t,
                         !.proceeded = @ + (IF outcome = "proceeded" THEN 1 ELSE 0),
                         !.reported = @ + (IF outcome = "failed" THEN 1 ELSE 0)]

\* the clock is not followed beyond this
MaxClock == MaxWaitTime + 2 * (PollInterval + MaxLate)

PollInit ==
    /\ MainStart("quickstart", {})
    /\ AuxStart

\* window.onload
OnLoad ==
    /\ poll.pc = "onload"
    /\ CheckBridgeReady(0)
    /\ UNCHANGED <<mainVars, timers, eventLog, tracker, client, aux2>>

\* the timer set by setTimeout(checkBridgeReady, 10) fires, on time or late
PollTimer ==
    /\ poll.pc = "polling"
    /\ poll.elapsed <= MaxClock
    /\ \E late \in 0..MaxLate : CheckBridgeReady(poll.elapsed + PollInterval + late)
    /\ UNCHANGED <<mainVars, timers, eventLog, tracker, client, aux2>>

\* the WebView injects window.NativeJSBridge
BridgeInjected ==
    /\ ~poll.ready
    /\ poll' = [poll EXCEPT !.ready = TRUE]
    /\ UNCHANGED <<mainVars, timers, eventLog, tracker, client, aux2>>

PollNext ==
    \/ OnLoad
    \/ PollTimer
    \/ BridgeInjected

\* the load event and a pending timer are eventually served by the event loop
PollSpec ==
    PollInit /\ [][PollNext]_vars /\ WF_vars(OnLoad) /\ WF_vars(PollTimer)

\* ------------------------------------------------------ the session store
\* The backend's session service with automatic cleanup, used by any clients:
\* sessions are created for users, any session ID is presented for validation,
\* cleanup timers and the hourly job run, the server process restarts.
UserIds == 1..MaxUsers

\* (mutant) the hourly job selects nothing
ExpiredSessionsNone(ss, t) == {}

\* the filter of cleanupExpiredSessions and of createSession's deleteMany:
\* expiresAt: { $lt: new Date() }
ExpiredSessions(ss, t) == {x \in ss : x.expiresAt < t}

StoreInit ==
    /\ MainStart("api", BridgeMethods)
    /\ AuxStart

\* SessionService.createSession (enhanced): removes the user's expired
\* sessions, saves the new session (saved: whether save() succeeds) and
\* schedules its cleanup
CreateSession ==
    /\ nextSid <= MaxSessions
    /\ \E userId \in UserIds, saved \in BOOLEAN :
         LET kept == sessions \ {x \in ExpiredSessions(sessions, now) : x.userId = userId}
             new == NewSession(nextSid, userId, now)
         IN /\ sessions' = IF saved THEN kept \cup {new} ELSE kept
            /\ timers' = IF saved THEN timers \cup {[sessionId |-> nextSid, at |-> new.expiresAt]}
                          ELSE timers
            /\ nextSid' = nextSid + 1
    /\ UNCHANGED <<variant, methods, pc, token, trace, storage, http, users, now, launches,
                   pending, poll, eventLog, tracker, client, aux2>>

\* a client posts a session ID to /api/auth/validate-session
SessionRequest ==
    /\ http.kind = "none"
    /\ \E sid \in StorableIds \cup {NoSession} :
         http' = [NoHttp EXCEPT !.kind = "validate", !.phase = "req", !.sid = sid]
    /\ UNCHANGED <<variant, methods, pc, token, trace, storage, sessions, users, nextSid, now,
                   launches, pending, aux>>

\* the client got its answer
ResponseSent ==
    /\ http.phase = "resp"
    /\ http' = NoHttp
    /\ UNCHANGED <<variant, methods, pc, token, trace, storage, sessions, users, nextSid, now,
                   launches, pending, aux>>

\* a timer of scheduleSessionCleanup fires: deleteSession(sessionId)
CleanupTimer ==
    /\ \E tm \in timers :
         /\ now >= tm.at
         /\ sessions' = DeleteOne(sessions, tm.sessionId)
         /\ timers' = timers \ {tm}
    /\ UNCHANGED <<variant, methods, pc, token, trace, storage, http, users, nextSid, now,
                   launches, pending, poll, eventLog, tracker, client, aux2>>

\* cron.schedule('0 * * * *'): cleanupExpiredSessions
CronCleanup ==
    /\ sessions' = sessions \ ExpiredSessions(sessions, now)
    /\ UNCHANGED <<variant, methods, pc, token, trace, storage, http, users, nextSid, now,
                   launches, pending, aux>>

\* the server process restarts: its timers are lost, the database is not
ServerRestart ==
    /\ timers # {}
    /\ timers' = {}
    /\ UNCHANGED <<mainVars, poll, eventLog, tracker, client, aux2>>

StoreNext ==
    \/ CreateSession
    \/ SessionRequest
    \/ ValidateEndpoint
    \/ ResponseSent
    \/ CleanupTimer
    \/ CronCleanup
    \/ ServerRestart
    \/ Tick

StoreSpec == StoreInit /\ [][StoreNext]_vars

\* the hourly job runs every hour and a due timer fires, as long as the server
\* runs; a run of the job that fails is repeated the next hour
CleanupSpec == StoreSpec /\ WF_vars(CronCleanup) /\ WF_vars(CleanupTimer)

\* ------------------------------------------------------- the event client
\* RapidoEventClient (JavaScript and Python) called for any order with any
\* orderStatus at any time; here the clock counts milliseconds.
OrderIds == 1..MaxOrders

OrderStatuses == {"CONFIRMED", "CANCELLED"}

\* orderStatus === 'CONFIRMED' ? 'CONFIRMED' : 'CANCELLED'
HostStatus(orderStatus) == IF orderStatus = "CONFIRMED" THEN "CONFIRMED" ELSE "CANCELLED"

\* postEvent: the event posted to /api/ota/event
PostEvent(eventType, eventId, orderId, orderStatus) ==
    [via |-> "post", type |-> eventType, id |-> eventId, orderId |-> orderId,
     orderStatus |-> orderStatus, hostStatus |-> HostStatus(orderStatus)]

\* postFlightBookingEvent at time t: `evt_flight_${orderId}_${Date.now()}`
FlightBookingEvent(orderId, orderStatus, t) ==
    PostEvent("order.confirmed", <<"evt_flight", orderId, t>>, orderId, orderStatus)

\* postHotelBookingEvent at time t
HotelBookingEvent(orderId, orderStatus, t) ==
    PostEvent("order.confirmed", <<"evt_hotel", orderId, t>>, orderId, orderStatus)

\* post_booking_event (Python) at time t: the ID carries whole seconds
BookingEventPy(serviceType, orderId, orderStatus, t) ==
    PostEvent("order.confirmed", <<"evt_" \o serviceType, orderId, t \div MsPerSecond>>,
              orderId, orderStatus)

EventInit ==
    /\ MainStart("api", BridgeMethods)
    /\ AuxStart

PostFlightBookingEvent ==
    /\ Len(eventLog) < MaxPosts
    /\ \E orderId \in OrderIds, orderStatus \in OrderStatuses :
         eventLog' = Append(eventLog, FlightBookingEvent(orderId, orderStatus, now))
    /\ UNCHANGED <<mainVars, poll, timers, tracker, client, aux2>>

PostHotelBookingEvent ==
    /\ Len(eventLog) < MaxPosts
    /\ \E orderId \in OrderIds, orderStatus \in OrderStatuses :
         eventLog' = Append(eventLog, HotelBookingEvent(orderId, orderStatus, now))
    /\ UNCHANGED <<mainVars, poll, timers, tracker, client, aux2>>

PostBookingEventPy ==
    /\ Len(eventLog) < MaxPosts
    /\ \E serviceType \in {"flight", "hotel"}, orderId \in OrderIds,
          orderStatus \in OrderStatuses :
         eventLog' = Append(eventLog, BookingEventPy(serviceType, orderId, orderStatus, now))
    /\ UNCHANGED <<mainVars, poll, timers, tracker, client, aux2>>

EventNext ==
    \/ PostFlightBookingEvent
    \/ PostHotelBookingEvent
    \/ PostBookingEventPy
    \/ Tick

EventSpec == EventInit /\ [][EventNext]_vars

\* ------------------------------------------------ coordinated event tracking
\* BookingEventTracker in the PWA: journey events through safeLogEvent, and
\* handleBookingConfirmation with its server-to-server post.
JourneyEvents == {"search_initiated", "results_viewed", "booking_initiated"}

\* what the post of the booking confirmation can end in
PostOutcomes == {"success", "refused", "failed"}

LogEntry(eventType, booking) ==
    [via |-> "logEvents", type |-> eventType, id |-> <<>>, orderId |-> booking,
     orderStatus |-> "", hostStatus |-> ""]

\* safeLogEvent: logs through NativeJSBridge.logEvents when the bridge offers
\* it, else returns false; it does not throw
SafeLogEvent(bridge, eventType, booking) ==
    IF bridge = "logEvents" THEN <<LogEntry(eventType, booking)>> ELSE <<>>

\* (mutant) handleBookingConfirmation without its try / catch
HandlePostFailureRethrow(bridge, booking) == [log |-> <<>>, pc |-> "threw"]

\* the catch block of handleBookingConfirmation
HandlePostFailure(bridge, booking) ==
    [log |-> SafeLogEvent(bridge, "server_event_failed", booking), pc |-> "done"]

TrackerInit ==
    /\ MainStart("api", BridgeMethods)
    /\ poll = PollStart
    /\ timers = {}
    /\ eventLog = <<>>
    /\ \E bridge \in {"logEvents", "noMethod", "noBridge"} : tracker = TrackerStart(bridge)
    /\ client = ClientStart("test-client-id")
    /\ Aux2Start

\* trackSearchInitiated / trackResultsViewed / trackBookingInitiated
TrackEvent ==
    /\ Len(eventLog) < MaxEvents
    /\ tracker.pc # "threw"
    /\ \E eventType \in JourneyEvents :
         eventLog' = eventLog \o SafeLogEvent(tracker.bridge, eventType, 0)
    /\ UNCHANGED <<mainVars, poll, timers, tracker, client, aux2>>

\* handleBookingConfirmation up to its await: logs booking_completed, then
\* postBookingConfirmation posts the flight booking as CONFIRMED
HandleBookingConfirmation ==
    /\ tracker.pc \in {"idle", "done"}
    /\ Len(eventLog) + 3 <= MaxEvents
    /\ \E booking \in OrderIds :
         /\ eventLog' = eventLog \o SafeLogEvent(tracker.bridge, "booking_completed", booking)
                              \o <<FlightBookingEvent(booking, "CONFIRMED", now)>>
         /\ tracker' = [tracker EXCEPT !.pc = "posting", !.booking = booking, !.failed = FALSE]
    /\ UNCHANGED <<mainVars, poll, timers, client, aux2>>

\* the post resolves or rejects and handleBookingConfirmation finishes
PostAnswered ==
    /\ tracker.pc = "posting"
    /\ \E outcome \in PostOutcomes :
         IF outcome = "success"
         THEN /\ tracker' = [tracker EXCEPT !.pc = "done"]
              /\ UNCHANGED eventLog
         ELSE LET h == HandlePostFailure(tracker.bridge, tracker.booking) IN
              /\ tracker' = [tracker EXCEPT !.pc = h.pc, !.failed = TRUE]
              /\ eventLog' = eventLog \o h.log
    /\ UNCHANGED <<mainVars, poll, timers, client, aux2>>

TrackerNext ==
    \/ TrackEvent
    \/ HandleBookingConfirmation
    \/ PostAnswered

TrackerSpec == TrackerInit /\ [][TrackerNext]_vars

\* ------------------------------------------------- the Rapido API client
\* the client IDs a client is constructed with ('test-client-id' in the tests)
ClientIds == {"test-client-id", "partner-client-id"}

\* the error responses of Rapido's API and the message of their error object
ErrorStatuses == {401, 429, 503}

ApiErrorMessage(status) ==
    CASE status = 401 -> "Token is invalid or expired"
      [] status = 429 -> "Rate limit exceeded"
      [] OTHER -> "Temporary service disruption"

\* What this.axios.post settles with.  "success": a 2xx response, data is
\* its body.  "response": the error axios rejects with for a non-2xx response
\* (error.response holds the status and the body, whose error.message is
\* apiMessage).  "request": the error for a request that got no response.
\* message is the error's own message, set by axios ("undefined" for the
\* plain objects the unit tests reject with).
AxiosOutcomes ==
    {[kind |-> "success", status |-> 200, data |-> a, apiMessage |-> "", message |-> ""] :
        a \in {r \in RapidoAnswers : r.status = 200}}
    \cup {[kind |-> "response", status |-> st, data |-> NoAnswer,
           apiMessage |-> ApiErrorMessage(st), message |-> m] :
             st \in ErrorStatuses, m \in {"Request failed with status code", "undefined"}}
    \cup {[kind |-> "request", status |-> 0, data |-> NoAnswer, apiMessage |-> "", message |-> m] :
             m \in {"Network Error", "undefined"}}

\* (mutant) the header carries a fixed client ID instead of the configured one
ValidateTokenRequestFixedId(config, tok) ==
    [method |-> "POST", url |-> "/fetch-user-details", data |-> [token |-> tok],
     headers |-> [authorization |-> config.apiKey, clientId |-> "test_client_id",
                  service |-> "<your_service_offering>", appid |-> "<your_app_id>"]]

\* the request validateToken makes through this.axios.post
ValidateTokenRequest(config, tok) ==
    [method |-> "POST", url |-> "/fetch-user-details", data |-> [token |-> tok],
     headers |-> [authorization |-> config.apiKey, clientId |-> config.clientId,
                  service |-> "<your_service_offering>", appid |-> "<your_app_id>"]]

\* handleAPIError: what it writes to the console; it returns nothing
HandleAPIError(error) ==
    IF error.kind = "response"
    THEN <<"API Error">> \o
         (CASE error.status = 401 -> <<"Unauthorized: Check API key configuration">>
            [] error.status = 429 -> <<"Rate limited: Slow down API requests">>
            [] error.status = 503 -> <<"Service unavailable: Rapido API is down">>
            [] OTHER -> <<>>)
    ELSE IF error.kind = "request"
         THEN <<"Network Error: Unable to reach Rapido API">>
         ELSE <<>>

\* the response interceptor's error handler: handleAPIError(error), then
\* Promise.reject(error) with the error it was given
InterceptError(error) == [error |-> error, console |-> HandleAPIError(error)]

\* how validateToken settles: return response.data, or the catch block's
\* console.error and throw error
ValidateTokenSettles(outcome) ==
    IF outcome.kind = "success"
    THEN [kind |-> "resolved", data |-> outcome.data, message |-> "", console |-> <<>>]
    ELSE LET i == InterceptError(outcome) IN
         [kind |-> "rejected", data |-> NoAnswer, message |-> i.error.message,
          console |-> i.console \o <<"Token validation failed">>]

ClientInit ==
    /\ MainStart("api", BridgeMethods)
    /\ poll = PollStart
    /\ timers = {}
    /\ eventLog = <<>>
    /\ tracker = TrackerStart("logEvents")
    /\ \E clientId \in ClientIds : client = ClientStart(clientId)
    /\ Aux2Start

\* validateToken(token) up to its await
ValidateToken ==
    /\ client.pc = "idle"
    /\ Len(client.requests) < MaxRequests
    /\ \E tok \in Tokens :
         client' = [client EXCEPT !.pc = "waiting", !.token = tok,
                      !.requests = Append(@, ValidateTokenRequest(client.config, tok))]
    /\ UNCHANGED <<mainVars, poll, timers, eventLog, tracker, aux2>>

\* the request settles and validateToken returns or throws
ValidateTokenSettled ==
    /\ client.pc = "waiting"
    /\ \E outcome \in AxiosOutcomes :
         client' = [client EXCEPT !.pc = "idle",
                      !.calls = Append(@, [token |-> client.token, outcome |-> outcome,
                                           result |-> ValidateTokenSettles(outcome)])]
    /\ UNCHANGED <<mainVars, poll, timers, eventLog, tracker, aux2>>

ClientNext ==
    \/ ValidateToken
    \/ ValidateTokenSettled

ClientSpec == ClientInit /\ [][ClientNext]_vars

\* ------------------------------------------- token validation with backoff
\* 2^n
RECURSIVE Pow2(_)
Pow2(n) == IF n = 0 THEN 1 ELSE 2 * Pow2(n - 1)

\* response.headers.get('Retry-After'): null, or the header's number of seconds
RetryAfterHeaders ==
    {[present |-> FALSE, seconds |-> 0], [present |-> TRUE, seconds |-> 1],
     [present |-> TRUE, seconds |-> 60]}

NoHeader == [present |-> FALSE, seconds |-> 0]

\* How one attempt's fetch goes: it is answered (status, Retry-After header,
\* whether response.json() succeeds) or it rejects (network failure).
FetchOutcomes ==
    [kind : {"response"}, status : {200, 401, 500}, retryAfter : {NoHeader}, json : BOOLEAN]
    \cup [kind : {"response"}, status : {429}, retryAfter : RetryAfterHeaders, json : {TRUE}]
    \cup [kind : {"rejected"}, status : {0}, retryAfter : {NoHeader}, json : {FALSE}]

RateLimited(outcome) == outcome.kind = "response" /\ outcome.status = 429

\* the attempt ends in the catch block: fetch rejected or response.json() threw
AttemptThrew(outcome) == ~RateLimited(outcome) /\ (outcome.kind = "rejected" \/ ~outcome.json)

\* (mutant) a fixed delay of one second
RetryDelayFixed(outcome, attempt) == 1

\* the seconds waited before the next attempt: after a 429
\* response.headers.get('Retry-After') || Math.pow(2, attempt), in the catch
\* block Math.pow(2, attempt)
RetryDelay(outcome, attempt) ==
    IF RateLimited(outcome) /\ outcome.retryAfter.present
    THEN outcome.retryAfter.seconds
    ELSE Pow2(attempt)

\* the loop head for (...; attempt <= maxRetries; ...): the next fetch, or
\* the end of the function, which returns undefined
LoopHead(b, attempt) ==
    IF attempt <= b.maxRetries
    THEN [b EXCEPT !.pc = "fetch", !.attempt = attempt, !.requests = @ + 1]
    ELSE [b EXCEPT !.pc = "returned", !.attempt = attempt, !.result = "undefined"]

BackoffInit ==
    /\ MainStart("api", BridgeMethods)
    /\ poll = PollStart
    /\ timers = {}
    /\ eventLog = <<>>
    /\ tracker = TrackerStart("logEvents")
    /\ client = ClientStart("test-client-id")
    /\ \E maxRetries \in 0..MaxRetries : backoff = BackoffStart(maxRetries)
    /\ treq = TokenRequestStart(TRUE, TRUE)
    /\ logins = NoLogins
    /\ requesters = RequestersStart
    /\ errs = <<>>

\* validateTokenWithBackoff(token, maxRetries) is called
ValidateTokenWithBackoff ==
    /\ backoff.pc = "idle"
    /\ backoff' = LoopHead(backoff, 1)
    /\ UNCHANGED <<mainVars, poll, timers, eventLog, tracker, client, treq, logins, requesters, errs>>

\* the fetch of the current attempt settles
FetchSettles ==
    /\ backoff.pc = "fetch"
    /\ \E outcome \in FetchOutcomes :
         LET b == [backoff EXCEPT !.outcomes = Append(@, outcome)] IN
         IF RateLimited(outcome) \/ AttemptThrew(outcome)
         THEN IF backoff.attempt = backoff.maxRetries
              THEN backoff' = [b EXCEPT !.pc = "threw",
                                 !.result = IF RateLimited(outcome)
                                            THEN "Rate limit exceeded. Please try again later."
                                            ELSE "error"]
              ELSE backoff' = [b EXCEPT !.pc = "wait",
                                 !.waits = Append(@, RetryDelay(outcome, backoff.attempt))]
         ELSE backoff' = [b EXCEPT !.pc = "returned", !.result = "body"]
    /\ UNCHANGED <<mainVars, poll, timers, eventLog, tracker, client, treq, logins, requesters, errs>>

\* the setTimeout of the wait fires: continue, attempt++
RetryTimer ==
    /\ backoff.pc = "wait"
    /\ backoff' = LoopHead(backoff, backoff.attempt + 1)
    /\ UNCHANGED <<mainVars, poll, timers, eventLog, tracker, client, treq, logins, requesters, errs>>

BackoffNext ==
    \/ ValidateTokenWithBackoff
    \/ FetchSettles
    \/ RetryTimer

\* every fetch settles and every timer fires
BackoffSpec ==
    BackoffInit /\ [][BackoffNext]_vars
    /\ WF_vars(ValidateTokenWithBackoff) /\ WF_vars(FetchSettles) /\ WF_vars(RetryTimer)

\* ------------------------------------------- token request with timeout
\* A value of window.JSBridge.onTokenReceived: 0 is the callback the page had
\* before (undefined when hasOriginal is false), k > 0 the function that the
\* k-th call of requestTokenWithTimeout assigned.
\* calls[k]: the closure of the k-th call: saved = originalCallback,
\* tokenReceived, and its timer ("pending", "cleared", "fired"); tokenSeen: a
\* token was delivered to the page since the call.

\* originalCallback is truthy
Callable(t, c) == c # 0 \/ t.hasOriginal

\* the call of the function c with a token
RECURSIVE RunCallback(_, _)
RunCallback(t, c) ==
    IF c = 0
    THEN [t EXCEPT !.originalCalls = @ + 1]
    ELSE LET saved == t.calls[c].saved
             t1 == [t EXCEPT !.calls[c].tokenReceived = TRUE,
                             !.calls[c].timer = IF @ = "pending" THEN "cleared" ELSE @]
             t2 == IF Callable(t1, saved) THEN RunCallback(t1, saved) ELSE t1
         IN [t2 EXCEPT !.callback = saved]

\* the else branch of requestTokenWithTimeout: console.error and clearTimeout
BridgeUnavailable(t, k) == [t EXCEPT !.calls[k].timer = "cleared"]

TokenRequestInit ==
    /\ MainStart("api", BridgeMethods)
    /\ poll = PollStart
    /\ timers = {}
    /\ eventLog = <<>>
    /\ tracker = TrackerStart("logEvents")
    /\ client = ClientStart("test-client-id")
    /\ backoff = BackoffStart(3)
    /\ \E bridge \in BOOLEAN, hasOriginal \in BOOLEAN : treq = TokenRequestStart(bridge, hasOriginal)
    /\ logins = NoLogins
    /\ requesters = RequestersStart
    /\ errs = <<>>

\* requestTokenWithTimeout(): saves the callback, starts the timer, assigns
\* its own callback and asks the bridge for a token
RequestTokenWithTimeout ==
    /\ Len(treq.calls) < MaxTokenRequests
    /\ LET k == Len(treq.calls) + 1
           t == [treq EXCEPT !.calls = Append(@, [saved |-> treq.callback, tokenReceived |-> FALSE,
                                                  timer |-> "pending", tokenSeen |-> FALSE]),
                             !.callback = k]
       IN treq' = IF treq.bridge
                  THEN [t EXCEPT !.requested = @ + 1]
                  ELSE BridgeUnavailable(t, k)
    /\ UNCHANGED <<mainVars, poll, timers, eventLog, tracker, client, backoff, logins, requesters, errs>>

\* the user consented: the bridge calls window.JSBridge.onTokenReceived(token)
TokenDelivered ==
    /\ treq.requested > 0
    /\ LET t == [treq EXCEPT !.requested = @ - 1, !.delivered = @ + 1,
                             !.calls = [k \in DOMAIN @ |-> [@[k] EXCEPT !.tokenSeen = TRUE]]]
       IN treq' = IF Callable(t, t.callback) THEN RunCallback(t, t.callback) ELSE t
    /\ UNCHANGED <<mainVars, poll, timers, eventLog, tracker, client, backoff, logins, requesters, errs>>

\* the 30 s timer of a call fires
TokenTimeout ==
    /\ \E k \in DOMAIN treq.calls :
         /\ treq.calls[k].timer = "pending"
         /\ treq' = IF treq.calls[k].tokenReceived
                    THEN [treq EXCEPT !.calls[k].timer = "fired"]
                    ELSE [treq EXCEPT !.calls[k].timer = "fired",
                                      !.consentShown = @ + 1,
                                      !.lateConsent = @ \/ treq.calls[k].tokenSeen,
                                      !.callback = treq.calls[k].saved]
    /\ UNCHANGED <<mainVars, poll, timers, eventLog, tracker, client, backoff, logins, requesters, errs>>

TokenRequestNext ==
    \/ RequestTokenWithTimeout
    \/ TokenDelivered
    \/ TokenTimeout

TokenRequestSpec == TokenRequestInit /\ [][TokenRequestNext]_vars

\* ---------------------------------------------- concurrent login requests
\* Each login request that reached UserService.createOrUpdateUser runs it as
\* its own async call: the awaits of findOne and save let the calls of other
\* requests run in between.  logins[r]: the Rapido user of request r, where
\* the call is, and what its findOne returned.
LoginIds == 1..MaxLogins

\* new User({...}).save(): a document with a fresh _id; userSchema declares
\* no unique index
SaveNewUser(us, rapidoUserId) == us \cup {[id |-> Cardinality(us) + 1, rapidoUserId |-> rapidoUserId]}

LoginsInit ==
    /\ MainStart("api", BridgeMethods)
    /\ AuxStart

\* a login request with a token Rapido validated enters createOrUpdateUser
LoginArrives ==
    /\ \E r \in LoginIds \ DOMAIN logins, rapidoUserId \in UserIds :
         logins' = [q \in DOMAIN logins \cup {r} |->
                      IF q = r THEN [rapidoUserId |-> rapidoUserId, pc |-> "findOne", existing |-> FALSE]
                      ELSE logins[q]]
    /\ UNCHANGED <<mainVars, poll, timers, eventLog, tracker, client, backoff, treq, requesters, errs>>

\* await User.findOne({ rapidoUserId: userData.id })
FindOneUser ==
    /\ \E r \in DOMAIN logins :
         /\ logins[r].pc = "findOne"
         /\ logins' = [logins EXCEPT ![r].pc = "save",
                         ![r].existing = \E u \in users : u.rapidoUserId = logins[r].rapidoUserId]
    /\ UNCHANGED <<mainVars, poll, timers, eventLog, tracker, client, backoff, treq, requesters, errs>>

\* await existingUser.save() / await newUser.save()
SaveUser ==
    /\ \E r \in DOMAIN logins :
         /\ logins[r].pc = "save"
         /\ users' = IF logins[r].existing THEN users
                     ELSE SaveNewUser(users, logins[r].rapidoUserId)
         /\ logins' = [logins EXCEPT ![r].pc = "done"]
    /\ UNCHANGED <<variant, methods, pc, token, trace, storage, http, sessions, nextSid, now,
                   launches, pending, poll, timers, eventLog, tracker, client, backoff, treq, requesters, errs>>

LoginsNext ==
    \/ LoginArrives
    \/ FindOneUser
    \/ SaveUser

LoginsSpec == LoginsInit /\ [][LoginsNext]_vars

\* ------------------------------------------ requesters of the stored session
\* Parts of the page that ask for the stored session: the session flow
\* (requestStoredSession / checkAuthentication) and the debug helper
\* (RapidoBridgeDebug.logBridgeInfo).  Each assigns its own function to the
\* one window.JSBridge.onSessionIdReceived and then calls requestSessionId;
\* the bridge answers each request later, in order, by calling what
\* window.JSBridge.onSessionIdReceived holds then.
Requesters == {"flow", "debug"}

\* callback assigned, then window.NativeJSBridge.requestSessionId()
AssignAndRequest(rq, who) == [rq EXCEPT !.callback = who, !.queue = Append(@, who)]

RequestersInit ==
    /\ MainStart("api", BridgeMethods)
    /\ AuxStart

\* requestStoredSession() / checkAuthentication() of the session flow
RequestStoredSession ==
    /\ Len(requesters.queue) + Len(requesters.handled) < MaxSessionRequests
    /\ requesters' = AssignAndRequest(requesters, "flow")
    /\ UNCHANGED <<mainVars, poll, timers, eventLog, tracker, client, backoff, treq, logins, errs>>

\* RapidoBridgeDebug.logBridgeInfo()
LogBridgeInfo ==
    /\ Len(requesters.queue) + Len(requesters.handled) < MaxSessionRequests
    /\ requesters' = AssignAndRequest(requesters, "debug")
    /\ UNCHANGED <<mainVars, poll, timers, eventLog, tracker, client, backoff, treq, logins, errs>>

\* the bridge answers the oldest request: window.JSBridge.onSessionIdReceived(sessionId)
OnSessionIdReceivedCalled ==
    /\ requesters.queue # <<>>
    /\ requesters' = [requesters EXCEPT
                        !.queue = Tail(@),
                        !.handled = Append(@, [requester |-> Head(requesters.queue),
                                               handler |-> requesters.callback])]
    /\ UNCHANGED <<mainVars, poll, timers, eventLog, tracker, client, backoff, treq, logins, errs>>

RequestersNext ==
    \/ RequestStoredSession
    \/ LogBridgeInfo
    \/ OnSessionIdReceivedCalled

RequestersSpec == RequestersInit /\ [][RequestersNext]_vars

\* ------------------------------------------------------ the error handler
\* An error object: rapido (instanceof RapidoAPIError), its code, its status
\* (statusSet FALSE: the property is missing), its message.
ErrorObject(rapido, code, statusSet, status, message) ==
    [rapido |-> rapido, code |-> code, statusSet |-> statusSet, status |-> status,
     message |-> message]

\* what the token validation's axios call can reject with: an error response
\* (status, data.error.code, data.error.message; "" where the body has none),
\* no response (request), or neither
AxiosFailures ==
    [kind : {"response"}, status : {401, 404, 429},
     code : {"INVALID_TOKEN", "UNAUTHORIZED", "RATE_LIMITED", "USER_NOT_FOUND", ""},
     message : {"Token Invalid", ""}]
    \cup [kind : {"request", "setup"}, status : {0}, code : {""}, message : {""}]

\* ErrorHandler.handleRapidoAPIError: the RapidoAPIError it throws
HandleRapidoAPIError(error) ==
    IF error.kind = "response"
    THEN ErrorObject(TRUE, IF error.code # "" THEN error.code ELSE "UNKNOWN_ERROR", TRUE,
                     error.status,
                     IF error.message # "" THEN error.message ELSE "API request failed")
    ELSE IF error.kind = "request"
    THEN ErrorObject(TRUE, "NETWORK_ERROR", TRUE, 0, "Network error: Unable to reach Rapido API")
    ELSE ErrorObject(TRUE, "UNKNOWN_ERROR", TRUE, 0,
                     IF error.message # "" THEN error.message ELSE "Unknown error occurred")

\* the errors a route's catch block can hold: those of handleRapidoAPIError,
\* RapidoAPIErrors constructed elsewhere (the status may be left out) and
\* errors of other classes
CaughtErrors ==
    {HandleRapidoAPIError(e) : e \in AxiosFailures}
    \cup {ErrorObject(TRUE, c, FALSE, 0, "Service error") :
            c \in {"NETWORK_ERROR", "SERVICE_UNAVAILABLE", "INVALID_TOKEN"}}
    \cup {ErrorObject(TRUE, "SERVICE_UNAVAILABLE", TRUE, 503, "Temporary service disruption")}
    \cup {ErrorObject(FALSE, c, st, 0, "Cannot read properties of undefined") :
            c \in {"", "INVALID_TOKEN"}, st \in BOOLEAN}

\* (mutant) the default branch takes error.status as it is
SendErrorResponseRawStatus(error) ==
    IF error.rapido
    THEN CASE error.code = "INVALID_TOKEN" -> [status |-> 401, success |-> FALSE, error |-> "Invalid or expired token"]
           [] error.code = "UNAUTHORIZED" -> [status |-> 401, success |-> FALSE, error |-> "Authentication failed"]
           [] error.code = "RATE_LIMITED" ->
                [status |-> 429, success |-> FALSE, error |-> "Rate limit exceeded. Please try again later."]
           [] error.code = "NETWORK_ERROR" ->
                [status |-> 503, success |-> FALSE, error |-> "Authentication service temporarily unavailable"]
           [] OTHER -> [status |-> error.status, success |-> FALSE, error |-> error.message]
    ELSE [status |-> 500, success |-> FALSE, error |-> "Internal server error"]

\* ErrorHandler.sendErrorResponse: res.status(status).json(errorResponse)
SendErrorResponse(error) ==
    IF error.rapido
    THEN CASE error.code = "INVALID_TOKEN" -> [status |-> 401, success |-> FALSE, error |-> "Invalid or expired token"]
           [] error.code = "UNAUTHORIZED" -> [status |-> 401, success |-> FALSE, error |-> "Authentication failed"]
           [] error.code = "RATE_LIMITED" ->
                [status |-> 429, success |-> FALSE, error |-> "Rate limit exceeded. Please try again later."]
           [] error.code = "NETWORK_ERROR" ->
                [status |-> 503, success |-> FALSE, error |-> "Authentication service temporarily unavailable"]
           [] OTHER -> [status |-> IF error.statusSet /\ error.status # 0 THEN error.status ELSE 500,
                        success |-> FALSE, error |-> error.message]
    ELSE [status |-> 500, success |-> FALSE, error |-> "Internal server error"]

ErrorsInit ==
    /\ MainStart("api", BridgeMethods)
    /\ AuxStart

\* a route's catch block: ErrorHandler.sendErrorResponse(res, error)
RouteCatches ==
    /\ Len(errs) < MaxErrors
    /\ \E error \in CaughtErrors :
         errs' = Append(errs, [error |-> error, response |-> SendErrorResponse(error)])
    /\ UNCHANGED <<mainVars, poll, timers, eventLog, tracker, client, backoff, treq, logins,
                   requesters>>

ErrorsNext ==
    \/ RouteCatches

ErrorsSpec == ErrorsInit /\ [][ErrorsNext]_vars

\* ---------------------------------------------------------- properties
\* positions of the current launch's trace
Idx == 1..Len(trace)

At(i, op, arg) == trace[i].op = op /\ trace[i].arg = arg

\* an answer of Rapido that reports the token valid
Validated(ans) == ans.status = 200 /\ ans.success /\ ans.valid = "true"

\* C1: the login endpoint creates a session and returns a sessionId only when
\* Rapido's validation of the submitted token succeeded; for a missing token, a
\* validation reported as failed and a validation call that errors, no session
\* is created and the answer carries success=false and no sessionId.
C1_SessionOnlyAfterValidation ==
    [][(http.kind = "login" /\ http.phase = "req" /\ http'.phase = "resp")
         => /\ (http'.ok \/ http'.sessionId # NoSession \/ sessions' # sessions)
                  => (http.token # "" /\ Validated(http'.rapido))
            /\ http'.ok => (\E x \in sessions' \ sessions : x.sessionId = http'.sessionId)]_vars

\* C1 witness: a login was refused because Rapido reported the token invalid,
\* and the backend holds no session
C1_Witness ==
    /\ http.kind = "login" /\ http.phase = "resp" /\ ~http.ok
    /\ http.rapido.status = 401
    /\ http.sessionId = NoSession
    /\ sessions = {}

\* the pages with a session flow that asks the backend
BackendFlows == Variants \ {"best"}

Granted(i) ==
    \/ At(i, "validate.response", 1)
    \/ (trace[i].op = "login.response" /\ trace[i].arg # 0)

\* C2: the PWA is in the authenticated view only after the backend answered,
\* during the current launch, a validate-session request with valid=true or a
\* rapido-login request with success=true.
C2_AccessOnlyAfterServerValidation ==
    (variant \in BackendFlows /\ pc = "dashboard") => \E i \in Idx : Granted(i)

\* C2 witness: the API reference page reached the dashboard on a valid stored session
C2_Witness ==
    /\ variant = "api" /\ pc = "dashboard"
    /\ \E i \in Idx : At(i, "validate.response", 1)

\* C3 (as claimed): for Rapido's documented HTTP 200 success response the login
\* endpoint creates a session and answers success=true with a sessionId.
C3_DocumentedSuccessLogsIn ==
    (http.kind = "login" /\ http.phase = "resp" /\ http.rapido = DocumentedSuccess)
        => (http.ok /\ http.sessionId # NoSession)

\* C4: on a launch where the stored session was reported valid the PWA is on the
\* dashboard and has not called requestUserToken (no token, no consent screen).
C4_ValidSessionSkipsLogin ==
    (\E i \in Idx : At(i, "validate.response", 1))
        => /\ pc = "dashboard"
           /\ \A j \in Idx : trace[j].op \notin {"requestUserToken", "onTokenReceived"}

\* C4 witness: the session manager validated a stored session and went to the dashboard
C4_Witness ==
    /\ variant = "manager" /\ pc = "dashboard" /\ launches = 2
    /\ \E i \in Idx : At(i, "validate.response", 1)
    /\ \E i \in Idx : trace[i].op = "onSessionIdReceived" /\ HasSession(trace[i].arg)

\* after position i the PWA called clearUserToken and, later, requestUserToken
ClearedThenRestarted(i) ==
    \E j \in Idx, k \in Idx :
        /\ i < j /\ j < k
        /\ trace[j].op = "clearUserToken"
        /\ trace[k].op = "requestUserToken"
        /\ \A m \in Idx : (i < m /\ m < j) => trace[m].op # "requestUserToken"

\* C5 (as claimed, for a complete bridge): once the backend reported the stored
\* session invalid or expired, the PWA has called clearUserToken and then
\* requestUserToken.
C5_ExpiredClearsThenRestarts ==
    methods = BridgeMethods
        => \A i \in Idx : At(i, "validate.response", 0) => ClearedThenRestarted(i)

\* the three failure kinds: authentication error (the login was refused or its
\* request failed), session expired (validate-session answered valid=false),
\* validation failed (the validate-session request failed)
Failure(i) ==
    \/ At(i, "login.response", 0)
    \/ At(i, "validate.response", 0)
    \/ At(i, "fetch.error", 0)

\* C6 (as claimed, for a complete bridge): after each of the three failure kinds
\* the PWA has cleared the stored session and then restarted authentication.
C6_EveryFailureClearsAndRestarts ==
    (methods = BridgeMethods /\ variant \in {"manager", "security"})
        => \A i \in Idx : Failure(i) => ClearedThenRestarted(i)

IsStore(i) == trace[i].op \in {"storeSessionId", "localStorage.setItem"}

\* C7: no call of updateLoginStatus(true, null) precedes the store of the session
\* of that login: no store follows it, and where the page can store (the bridge
\* offers storeSessionId; localStorage for the Best Practices handler) the store
\* of the issued session ID comes before it.
C7_StatusAfterStore ==
    \A i \in Idx : At(i, "updateLoginStatus", 1) =>
        /\ \A j \in Idx : (j > i) => ~IsStore(j)
        /\ (variant = "best") => \E j \in Idx : j < i /\ trace[j].op = "localStorage.setItem"
        /\ (variant # "best" /\ "storeSessionId" \in methods) =>
              \E j \in Idx, r \in Idx :
                  /\ r < j /\ j < i
                  /\ trace[r].op = "login.response" /\ trace[r].arg # 0
                  /\ At(j, "storeSessionId", trace[r].arg)

\* C7 witness: the session manager stored the issued session and reported success
C7_Witness ==
    /\ variant = "manager"
    /\ \E i \in Idx, j \in Idx :
          j < i /\ At(i, "updateLoginStatus", 1) /\ trace[j].op = "storeSessionId"

\* number of updateLoginStatus calls of this launch
StatusCalls == Cardinality({i \in Idx : trace[i].op = "updateLoginStatus"})

\* C8 (as claimed, for the quick integration example on a complete bridge): once a
\* delivered token has been processed, updateLoginStatus was called exactly once.
C8_StatusExactlyOnce ==
    (variant = "quick" /\ methods = BridgeMethods /\ pc # "fetching"
       /\ \E i \in Idx : trace[i].op = "onTokenReceived")
        => StatusCalls = 1

\* C9 (as claimed): the token is written neither to the console nor to browser
\* storage by any page.
C9_TokenNeverLogged ==
    \A i \in Idx : ~At(i, "console.log", 1) /\ ~At(i, "localStorage.setItem", 1)

\* C10 (as claimed): session data is never written to localStorage/sessionStorage.
C10_NoSessionInBrowserStorage ==
    \A i \in Idx : ~At(i, "localStorage.setItem", 2)

\* ---- the bridge's session storage
\* position i is a write the storage accepted: a storeSessionId that returned
\* 'SUCCESS', or a clearUserToken
Accepted(i) ==
    \/ trace[i].op = "clearUserToken"
    \/ /\ trace[i].op = "storeSessionId"
       /\ i < Len(trace) /\ At(i + 1, "storeSessionId.returned", 1)

\* the session ID in the storage just before position r: that of the last
\* accepted store, null when there is none or the storage was cleared since
StoredBefore(r) ==
    LET ws == {j \in Idx : j < r /\ Accepted(j)} IN
    IF ws = {} THEN NoSession
    ELSE LET m == CHOOSE j \in ws : \A k \in ws : k <= j IN
         IF trace[m].op = "clearUserToken" THEN NoSession ELSE trace[m].arg

\* the requestSessionId call that the delivery at position i answers
RequestOf(i) ==
    CHOOSE r \in Idx : /\ r < i /\ trace[r].op = "requestSessionId"
                       /\ \A k \in Idx : (k < i /\ trace[k].op = "requestSessionId") => k <= r

\* C11: every delivery to onSessionIdReceived carries the session ID of the most
\* recent storeSessionId that returned 'SUCCESS' before the requestSessionId it
\* answers, and null when nothing was stored before it (or the storage was
\* cleared since).
C11_StoreRequestRoundTrip ==
    \A i \in Idx : trace[i].op = "onSessionIdReceived"
        => trace[i].arg = StoredBefore(RequestOf(i))

\* C11 witness: two stores of different IDs returned 'SUCCESS', then
\* requestSessionId delivered the second ID
C11_Witness ==
    \E a \in Idx, b \in Idx, i \in Idx :
        /\ trace[i].op = "onSessionIdReceived"
        /\ a < b /\ b < RequestOf(i)
        /\ trace[a].op = "storeSessionId" /\ Accepted(a)
        /\ trace[b].op = "storeSessionId" /\ Accepted(b)
        /\ trace[a].arg # trace[b].arg
        /\ trace[i].arg = trace[b].arg

\* ---- callbacks
\* before position i the page registered the callback cb
Registered(i, cb) == \E j \in Idx : j < i /\ trace[j].op = "set." \o cb

LiveSession == \E x \in sessions : x.sessionId = http.sid /\ x.expiresAt > now

\* a step of the validate-session route
ValidationStep == http.kind = "validate" /\ http.phase = "req" /\ http'.phase = "resp"

\* C14 (as claimed): validate-session answers valid=true if and only if the store
\* holds a session with that ID whose expiresAt is later than the time of
\* validation.
C14_ValidIffLiveSession ==
    [][ValidationStep => (http'.ok <=> LiveSession)]_vars

\* C14 (amended): validate-session answers valid=true only for a session ID that
\* the store holds with expiresAt later than the time of validation - never for
\* an expired, unknown or deleted one - and it does answer valid=true for such a
\* session unless one of its database calls fails (the route then answers
\* valid=false).
C14_ValidIffLiveSessionAndDbUp ==
    [][ValidationStep => (http'.ok <=> (LiveSession /\ http'.db = "ok"))]_vars

\* C14 witness: an expired session was presented, reported invalid and removed
C14_Witness ==
    /\ http.kind = "validate" /\ http.phase = "resp"
    /\ ~http.ok /\ http.db = "ok"
    /\ HasSession(http.sid)
    /\ now >= SessionExpiry
    /\ \A x \in sessions : x.sessionId # http.sid

\* ---- bridge readiness check
PollDone == poll.pc \in {"proceeded", "failed"}

\* what checkBridgeReady has done is consistent with where it is: it went on to
\* the bridge at most once and only with the bridge present, it reported the
\* timeout at most once and only from 5 s on, and never both
PollSafe ==
    /\ poll.proceeded = (IF poll.pc = "proceeded" THEN 1 ELSE 0)
    /\ poll.reported = (IF poll.pc = "failed" THEN 1 ELSE 0)
    /\ poll.pc = "proceeded" => poll.ready
    /\ poll.pc = "failed" => /\ poll.elapsed >= MaxWaitTime
                             /\ poll.elapsed < MaxWaitTime + PollInterval + MaxLate + 1
    /\ poll.pc = "polling" => poll.elapsed < MaxWaitTime

\* once it proceeded or reported the timeout, checkBridgeReady does nothing more
PollStops == [][PollDone => UNCHANGED <<poll.pc, poll.elapsed, poll.proceeded, poll.reported>>]_vars

\* C13: checkBridgeReady always terminates: it goes on to the bridge exactly once,
\* with the bridge detected, or it stops and reports failure once 5 s have
\* elapsed (and before the next poll after that is due); before it detects the
\* bridge and after it reported the timeout it does not touch the bridge.
C13_ReadinessCheckTerminates ==
    /\ []PollSafe
    /\ PollStops
    /\ <>PollDone

\* C13 witness: the bridge never appeared and the check gave up after 5 s
C13_Witness ==
    /\ poll.pc = "failed" /\ ~poll.ready
    /\ poll.reported = 1 /\ poll.proceeded = 0
    /\ poll.elapsed >= MaxWaitTime

\* ---- automatic cleanup
\* the store holds the session sid and its expiresAt has passed
Expired(sid) == \E x \in sessions : x.sessionId = sid /\ x.expiresAt < now

Gone(sid) == \A x \in sessions : x.sessionId # sid

\* C15: every session whose expiresAt has passed is eventually deleted from the
\* store, whether or not it is validated again.
C15_ExpiredEventuallyDeleted ==
    \A sid \in 1..MaxSessions : Expired(sid) ~> Gone(sid)

\* C15 witness: an expired session is in the store, its timer was lost in a
\* restart and nobody is validating it
C15_Witness ==
    /\ \E sid \in 1..MaxSessions : Expired(sid)
    /\ timers = {}
    /\ http.kind = "none"

\* ---- events
Posted == {i \in 1..Len(eventLog) : eventLog[i].via = "post"}

\* C16 (as claimed): every posted event has the type of its order's state:
\* order.confirmed for a confirmed booking, order.cancelled for a cancelled one.
C16_TypeMatchesLifecycle ==
    \A i \in Posted :
        /\ eventLog[i].orderStatus = "CONFIRMED" => eventLog[i].type = "order.confirmed"
        /\ eventLog[i].orderStatus = "CANCELLED" => eventLog[i].type = "order.cancelled"

\* C17 (as claimed): any two posted events carry different event IDs.
C17_EventIdsUnique ==
    \A i \in Posted, j \in Posted : i # j => eventLog[i].id # eventLog[j].id

\* the tracker's post of its current booking
LastPost == CHOOSE i \in Posted : \A j \in Posted : j <= i

\* what handleBookingConfirmation has done is in order: it never ends in a throw;
\* where the bridge offers logEvents, each post comes after the booking_completed
\* event of its booking, and a failed post is followed by server_event_failed
TrackerSafe ==
    /\ tracker.pc # "threw"
    /\ tracker.bridge = "logEvents" =>
          \A i \in Posted : \E j \in 1..Len(eventLog) :
              j < i /\ eventLog[j] = LogEntry("booking_completed", eventLog[i].orderId)
    /\ (tracker.bridge = "logEvents" /\ tracker.pc = "done" /\ tracker.failed) =>
          \E j \in 1..Len(eventLog) :
              j > LastPost /\ eventLog[j] = LogEntry("server_event_failed", tracker.booking)

\* after a failed post a tracked journey event is logged like before
LaterEventsLogged ==
    [][(tracker.failed /\ tracker.bridge = "logEvents" /\ tracker' = tracker /\ eventLog' # eventLog)
          => \E eventType \in JourneyEvents : eventLog' = Append(eventLog, LogEntry(eventType, 0))]_vars

\* C18: in handleBookingConfirmation the PWA event booking_completed is logged
\* before the server-to-server post, a failure of the post does not leave
\* handleBookingConfirmation as an exception, it is logged as server_event_failed,
\* and later PWA events are still logged (where the bridge offers logEvents).
C18_FrontendEventsContinue ==
    /\ []TrackerSafe
    /\ LaterEventsLogged

\* C18 witness: the post failed, the failure was logged and a later journey event too
C18_Witness ==
    /\ tracker.pc = "done" /\ tracker.failed
    /\ \E j \in 1..Len(eventLog), k \in 1..Len(eventLog) :
          /\ LastPost < j /\ j < k
          /\ eventLog[j].type = "server_event_failed"
          /\ eventLog[k].type \in JourneyEvents
          /\ eventLog[k].via = "logEvents"

\* ---- the Rapido API client
\* the token validateToken was called with in its i-th call
TokenOfCall(i) == IF i <= Len(client.calls) THEN client.calls[i].token ELSE client.token

\* calls of validateToken made so far, the unfinished one included
CallsMade == Len(client.calls) + (IF client.pc = "waiting" THEN 1 ELSE 0)

C20_FailuresReportedByMessage ==
    \A i \in 1..Len(client.calls) :
        LET call == client.calls[i] IN
        /\ call.outcome.kind = "response"
             => call.result.kind = "rejected" /\ call.result.message = call.outcome.apiMessage
        /\ call.outcome.kind = "request"
             => /\ call.result.kind = "rejected"
                /\ call.result.message = "Network error: Unable to reach Rapido API"

\* ---- token validation with backoff
BackoffDone == backoff.pc \in {"returned", "threw"}

\* the outcome of the attempt that ended the call
LastOutcome == backoff.outcomes[Len(backoff.outcomes)]

BackoffSafe ==
    backoff.maxRetries >= 1 =>
      /\ backoff.requests <= backoff.maxRetries
      /\ \A n \in 1..Len(backoff.waits) :
           backoff.waits[n] = IF RateLimited(backoff.outcomes[n]) /\ backoff.outcomes[n].retryAfter.present
                              THEN backoff.outcomes[n].retryAfter.seconds
                              ELSE Pow2(n)
      /\ backoff.pc = "returned" =>
           /\ backoff.result = "body"
           /\ LastOutcome.kind = "response" /\ LastOutcome.status # 429
      /\ (Len(backoff.outcomes) = backoff.maxRetries
            /\ (RateLimited(LastOutcome) \/ AttemptThrew(LastOutcome)))
           => backoff.pc = "threw"
      /\ backoff.pc = "threw" => Len(backoff.outcomes) = backoff.maxRetries

\* C22: validateTokenWithBackoff(token, maxRetries) performs at most maxRetries
\* requests, waits 2^n seconds between attempt n and attempt n+1 (the
\* Retry-After value after a 429), never returns a 429 response, throws once
\* the maxRetries-th attempt failed or was rate limited, and for maxRetries >= 1
\* ends by returning a non-429 response body or by throwing.
C22_BackoffBoundedAndEnds == []BackoffSafe /\ <>BackoffDone

\* three attempts: rate limited with a Retry-After header, a network failure,
\* rate limited again, and the call threw
C22_Witness ==
    /\ backoff.maxRetries = 3
    /\ backoff.pc = "threw"
    /\ backoff.requests = 3
    /\ backoff.waits = <<60, 4>>
    /\ RateLimited(LastOutcome)

\* ---- token request with timeout
\* the work of every call is finished: its timer fired or was cleared
TokenRequestsFinished ==
    /\ treq.calls # <<>>
    /\ \A k \in DOMAIN treq.calls : treq.calls[k].timer # "pending"

\* C23: requestTokenWithTimeout overrides the token callback only temporarily:
\* in every outcome (token before the timeout, timeout, token after the
\* timeout, bridge unavailable) window.JSBridge.onTokenReceived is the original
\* callback again once the function's work is finished, the original callback
\* receives each delivered token exactly once, and the consent-required message
\* is never shown after a token was received.
C23_CallbackOverriddenTemporarily ==
    /\ TokenRequestsFinished => treq.callback = 0
    /\ treq.hasOriginal => treq.originalCalls = treq.delivered
    /\ ~treq.lateConsent

\* ---- the flow as a whole
\* C24: when the bridge is available, the user approves consent and the
\* partner backend and Rapido's API answer, every launch of the PWA - with no
\* stored session, a valid one or an expired one - eventually reaches the
\* authenticated dashboard, and the flow is never stuck waiting for nothing.
C24_LaunchReachesDashboard == (pc = "load") ~> (pc = "dashboard")

\* ---- reported logins and the secure storage
\* the backend answered the login of this launch with the session ID sid and
\* the PWA reported the login as successful afterwards
LoginReported(sid) ==
    \E i \in Idx, j \in Idx :
        /\ i < j
        /\ At(i, "login.response", sid)
        /\ \/ At(j, "updateLoginStatus", 1)
           \/ trace[j].op = "navigate"

\* storeSessionId was called after the login answer and returned 'SUCCESS'
StoredAfterLogin ==
    \E i \in Idx, j \in Idx :
        /\ i < j
        /\ trace[i].op = "login.response"
        /\ At(j, "storeSessionId.returned", 1)

\* C25 (as claimed): whenever the PWA reports a successful login, Rapido's
\* secure storage holds exactly the session ID the backend returned for that
\* login, also when storeSessionId returns an error or is unavailable.
C25_ReportedLoginIsStored ==
    \A sid \in 1..MaxSessions : LoginReported(sid) => storage = sid

\* C25 (amended): a reported login's session ID is in the secure storage
\* exactly when storeSessionId was available and returned 'SUCCESS'; with an
\* 'ERROR:...' result or without the method the login is reported all the same
\* and the storage does not hold the session ID.
C25_ReportedLoginStoredIffStoreSucceeded ==
    \A sid \in 1..MaxSessions :
        LoginReported(sid) => (storage = sid <=> StoredAfterLogin)

\* the API reference page reported a login although storeSessionId had
\* returned an error: the storage still holds the earlier session
C25_Witness ==
    /\ variant = "api"
    /\ methods = BridgeMethods
    /\ launches = 2
    /\ LoginReported(2)
    /\ \E i \in Idx : At(i, "storeSessionId.returned", 0)
    /\ storage # 2

\* ---- concurrent login requests
\* C26: concurrent login requests for the same Rapido user never create more
\* than one user record: under every interleaving of createOrUpdateUser's
\* findOne and save steps at most one User with a given rapidoUserId exists.
C26_OneUserPerRapidoUser ==
    \A u1 \in users, u2 \in users : u1.rapidoUserId = u2.rapidoUserId => u1 = u2

\* ---- requesters of the stored session
\* C27: a session-ID response of the bridge is always handled by the callback
\* of the code that requested it, and the session flow's handler is never
\* lost: while a request of the flow is unanswered the callback is the flow's.
C27_ResponseGoesToRequester ==
    /\ \A i \in 1..Len(requesters.handled) :
         requesters.handled[i].handler = requesters.handled[i].requester
    /\ (\E i \in 1..Len(requesters.queue) : requesters.queue[i] = "flow")
         => requesters.callback = "flow"

\* ---- the login endpoint's status codes
\* the login endpoint has answered
LoginResponded == http.kind = "login" /\ http.phase = "resp"

\* what the claim says for every case but a 2xx answer without a valid token
StatusOfFailures ==
    /\ http.token = "" => http.status = 400 /\ http.rapido = NoAnswer
    /\ http.token # "" =>
         /\ http.rapido.status = 401 => http.status = 401
         /\ http.rapido.status = 429 => http.status = 429
         /\ http.rapido.status \notin {200, 401, 429} => http.status = 500
    /\ http.status # 200 => ~http.ok /\ http.sessionId = NoSession

\* a 2xx body with success=true and no data object
SuccessWithoutData(ans) == ans.status = 200 /\ ans.success /\ ans.valid = "nodata"

CreatedSession(x) == nextSid' = nextSid + 1 /\ x \in sessions' /\ x.sessionId = nextSid

\* C29: the enhanced createSession cleans up any existing sessions of the
\* user before it saves the new one: after createSession(userId) completes,
\* the new session is the only stored session of that user.
C29_NewSessionIsOnlySession ==
    [][\A x \in sessions', y \in sessions' :
          (CreatedSession(x) /\ y.userId = x.userId) => y = x]_vars

\* ---- the error handler
\* the status the claim gives for an error
ClaimedStatus(error) ==
    IF ~error.rapido THEN 500
    ELSE IF error.code \in {"INVALID_TOKEN", "UNAUTHORIZED"} THEN 401
    ELSE IF error.code = "RATE_LIMITED" THEN 429
    ELSE IF error.code = "NETWORK_ERROR" THEN 503
    ELSE IF ~error.statusSet \/ error.status = 0 THEN 500
    ELSE error.status

\* C30: sendErrorResponse always answers success=false with a status determined
\* by the error: INVALID_TOKEN or UNAUTHORIZED 401, RATE_LIMITED 429,
\* NETWORK_ERROR 503, any other RapidoAPIError its own status, or 500 when that
\* is 0 or missing, with the error's message; an error that is not a
\* RapidoAPIError 500 'Internal server error'.
C30_ErrorResponseByCode ==
    \A i \in 1..Len(errs) :
        LET e == errs[i].error
            r == errs[i].response
        IN /\ ~r.success
           /\ r.status = ClaimedStatus(e)
           /\ (e.rapido /\ e.code \notin {"INVALID_TOKEN", "UNAUTHORIZED", "RATE_LIMITED",
                                           "NETWORK_ERROR"}) => r.error = e.message
           /\ ~e.rapido => r.error = "Internal server error"

\* a RapidoAPIError with another code and status 0 was answered with 500 and
\* its message, after an error of another class carrying code INVALID_TOKEN
C30_Witness ==
    /\ Len(errs) = 2
    /\ ~errs[1].error.rapido /\ errs[1].error.code = "INVALID_TOKEN"
    /\ errs[2].error.rapido /\ errs[2].error.code = "UNKNOWN_ERROR"
    /\ errs[2].error.status = 0
    /\ errs[2].response.status = 500
    /\ errs[2].response.error = "Unknown error occurred"

====
